---- MODULE Spec2Model ----
(***************************************************************************)
(* Model asset lifecycle manager of transcribe-audio (the settings page's  *)
(* model downloader): the persisted status store (localStorage), the       *)
(* registry of abort controllers, the destination files and the            *)
(* startDownload / cancelDownload / deleteDownload handlers.               *)
(*                                                                         *)
(* JavaScript runs each handler to its next await without interruption, so *)
(* one action is one run of code between two awaits.  An await on a plain  *)
(* async function (getModelPath) resumes in a microtask, before any other  *)
(* handler can run, and is folded into the step that follows it.           *)
(*                                                                         *)
(* Every saveStates() in the code is followed by render(), which reloads   *)
(* the store: what the page shows is the value of `store`.                 *)
(*                                                                         *)
(* Seven views of the program are specified: Spec and SpecUI (a session   *)
(* of the settings page, intents at any time or through its buttons),      *)
(* SpecReconcile (loadStates and the startup functions applied to every    *)
(* stored item and disk), SpecPageLoad (the settings page from its load,   *)
(* checkExistingFiles suspended at its awaits beside intents), SpecMain    *)
(* (the main page of main.ts beside the settings page), SpecRoundTrip      *)
(* (Delete and Download on models that are all Present) and SpecInline     *)
(* (the variant of the settings page in part_000).                         *)
(***************************************************************************)
EXTENDS Integers, FiniteSets, Sequences, TLC

\* The catalog, in the order the code lists it.
MODEL_KEYS == <<"tiny", "base", "small", "medium", "large">>

\* The identifiers the model explores: the first two of the catalog.
Keys == {MODEL_KEYS[1], MODEL_KEYS[2]}

\* Bounds of the exploration.
MaxAttempts == 2
MaxReceived == 3
MaxTotal == 2
\* Bytes per chunk delivered by reader.read().
ChunkLength == 1
\* Process starts explored on one stored item.
MaxRuns == 2
\* startDownload executions explored beside the startup of the page.
MaxPageAttempts == 1
\* Executions of the Start click handler that can be suspended at a time.
MaxStarts == 2

\* Declared content-length: absent/0, or a known size.
Totals == {0, MaxTotal}

AttemptIds == 1..MaxAttempts

VARIABLES
    store,            \* localStorage[STORAGE_KEY] as loadStates() reads it
    abortControllers, \* key -> id of the attempt whose controller is registered, 0 if none
    file,             \* key -> the file at models/<key>.bin
    att,              \* attempt id -> the locals of that startDownload execution
    nAtt,             \* number of startDownload executions that got past the early return
    pendingRemove,    \* keys with a remove() of cancelDownload issued and not yet executed
    startup,          \* the startup functions applied to a raw localStorage item
    recon,            \* the locals of the checkExistingFiles execution of the page
    mainWin           \* the main page (main.ts): model select, Start button, click handlers

vars == <<store, abortControllers, file, att, nAtt, pendingRemove,
          startup, recon, mainWin>>

\* What the handlers of the download session never touch.
pageVars == <<startup, recon, mainWin>>

----------------------------------------------------------------------------
\* Records and pure helpers

ModelState(s, p) == [state |-> s, progress |-> p]

defaultState == [k \in Keys |-> ModelState("not-downloaded", 0)]

NoFile == [exists |-> FALSE, nonempty |-> FALSE]

\* `models/${key}.bin`, relative to the application's local data directory:
\* file[key] is the file at this path.
getModelPath(key) == "models/" \o key \o ".bin"

\* Math.round((receivedLength / totalLength) * 100), for totalLength > 0.
PercentOf(receivedLength, totalLength) ==
    (200 * receivedLength + totalLength) \div (2 * totalLength)

\* The locals of a startDownload execution.  pc names the await it is suspended
\* at: "fetch" (mkdir, then fetch), "create", "read", "write", "close" (close,
\* then appLocalDataDir and join).  states is the snapshot loaded at line 181
\* and mutated since; aborted is controller.signal.aborted; lastRenderTime is 0
\* or 1 for any later time; fhLive tells whether fileHandle still refers to the
\* file at the destination path.  cancelled is a history field: cancelDownload
\* ran for the key while this execution was in flight and the record was
\* 'downloading'.
IdleAttempt ==
    [key |-> MODEL_KEYS[1], pc |-> "idle", states |-> defaultState,
     aborted |-> FALSE, totalLength |-> 0, receivedLength |-> 0,
     lastRenderTime |-> 0, fhLive |-> FALSE, cancelled |-> FALSE]

\* A returned startDownload execution: only what later checks read is kept.
DoneAttempt(a) ==
    [IdleAttempt EXCEPT !.key = att[a].key, !.pc = "done",
                        !.cancelled = att[a].cancelled]

InFlight(a) == att[a].pc \notin {"idle", "done"}

----------------------------------------------------------------------------
\* The localStorage item and the startup functions

\* What JSON.parse can give where a record is expected, besides a record: null
\* and a number.
JNull == [t |-> "null"]
JNumber == [t |-> "number"]

\* The item at STORAGE_KEY: absent (getItem returns null), a string JSON.parse
\* rejects, or the parsed value: null, a number, or an object from identifiers
\* to values.  JSON.stringify of an object followed by JSON.parse gives the
\* object back, so a saved mapping `states` is the item JObject(states).
Missing == [t |-> "missing"]
Garbage == [t |-> "garbage"]
JObject(f) == [t |-> "object", f |-> f]

IsRecord(v) == "state" \in DOMAIN v

\* loadStates with the two spreads in the other order,
\* { ...parsed, ...defaultState() }.
loadStates_DefaultsLast(item) ==
    IF item.t = "object"
    THEN [k \in Keys \cup DOMAIN item.f |->
             IF k \in Keys THEN defaultState[k] ELSE item.f[k]]
    ELSE defaultState

\* { ...defaultState(), ...parsed }: spreading null or a number adds nothing,
\* spreading an object copies each of its properties as it is; JSON.parse
\* throwing is caught.
loadStates(item) ==
    IF item.t = "object"
    THEN [k \in Keys \cup DOMAIN item.f |->
             IF k \in DOMAIN item.f THEN item.f[k] ELSE defaultState[k]]
    ELSE defaultState

\* The body of the forEach of normalizeStatesOnStartup for a value st with
\* !st false and a 'downloading' record kept when its progress is 0.
NormalizeRecord_ProgressOnly(st) ==
    IF ~IsRecord(st) THEN st
    ELSE IF st.state \in {"downloading", "not-downloaded"} /\ st.progress # 0
    THEN ModelState("not-downloaded", 0)
    ELSE IF st.state = "downloaded" /\ st.progress # 100
    THEN ModelState("downloaded", 100)
    ELSE st

\* The body of the forEach of normalizeStatesOnStartup for a value st: null is
\* skipped (!st), a number has no .state, a record is reset or completed.
NormalizeRecord(st) ==
    IF ~IsRecord(st) THEN st
    ELSE IF /\ st.state \in {"downloading", "not-downloaded"}
            /\ (st.progress # 0 \/ st.state = "downloading")
    THEN ModelState("not-downloaded", 0)
    ELSE IF st.state = "downloaded" /\ st.progress # 100
    THEN ModelState("downloaded", 100)
    ELSE st

\* normalizeStatesOnStartup: the item it leaves and whether it called setItem.
\* An absent item returns at once; a string that does not parse, and null
\* (parsed[key] throws), end in the catch block; a number has no properties.
normalizeStatesOnStartup(item) ==
    IF item.t # "object"
    THEN [item |-> item, wrote |-> FALSE]
    ELSE LET parsed == [k \in DOMAIN item.f |->
                           IF k \in Keys THEN NormalizeRecord(item.f[k])
                           ELSE item.f[k]]
         IN  [item |-> JObject(parsed), wrote |-> parsed # item.f]

\* render() and checkExistingFiles() read states[key].state for every key of
\* the catalog: a TypeError when the value is null.
ReadThrows(states) == \E k \in Keys : states[k] = JNull

\* The keys downgraded when exists() is not consulted: every 'downloaded' one.
Downgraded_IgnoresDisk(states, disk) ==
    {k \in Keys : /\ IsRecord(states[k])
                  /\ states[k].state = "downloaded"}

\* The keys checkExistingFiles downgrades: 'downloaded' with no file on disk.
Downgraded(states, disk) ==
    {k \in Keys : /\ IsRecord(states[k])
                  /\ states[k].state = "downloaded"
                  /\ ~disk[k].exists}

\* checkExistingFiles with `changed` taken as true whatever the loop found.
checkExistingFiles_AlwaysSaves(item, disk) ==
    LET states == loadStates(item)
        down == Downgraded(states, disk)
        result == [k \in DOMAIN states |->
                      IF k \in down THEN ModelState("not-downloaded", 0)
                      ELSE states[k]]
    IN  IF ReadThrows(states)
        THEN [item |-> item, wrote |-> FALSE]
        ELSE [item |-> JObject(result), wrote |-> TRUE]

\* checkExistingFiles run to its end with nothing else running in between, every
\* exists() resolving with the truth: the item it leaves and whether it saved.
checkExistingFiles(item, disk) ==
    LET states == loadStates(item)
        down == Downgraded(states, disk)
        result == [k \in DOMAIN states |->
                      IF k \in down THEN ModelState("not-downloaded", 0)
                      ELSE states[k]]
    IN  IF ReadThrows(states)
        THEN [item |-> item, wrote |-> FALSE]
        ELSE [item |-> IF down # {} THEN JObject(result) ELSE item,
              wrote |-> down # {}]

\* The items and disks the startup functions are applied to.
StoredStates == {"not-downloaded", "downloading", "downloaded", "paused"}
StoredProgress == {0, 50, 100}
StoredValues ==
    {JNull, JNumber} \cup {ModelState(s, p) : s \in StoredStates, p \in StoredProgress}
Items ==
    {Missing, Garbage, JNull, JNumber}
        \cup {JObject(f) : f \in UNION {[D -> StoredValues] : D \in SUBSET Keys}}
Files == {NoFile, [exists |-> TRUE, nonempty |-> FALSE],
          [exists |-> TRUE, nonempty |-> TRUE]}

\* The startup functions applied to an item: stage is "off" (not in use),
\* "stored" (process start), "normalized", "rendered", "checked", "crashed"
\* (render threw, the handler stopped) or "loaded" (loadStates alone was
\* applied); item is the localStorage item, input the item at the first process
\* start, first the item the first run left, run the number of the run, wrote
\* whether this run called setItem, loaded the last result of loadStates.
OffStartup ==
    [stage |-> "off", item |-> Missing, input |-> Missing, first |-> Missing,
     run |-> 0, wrote |-> FALSE, loaded |-> defaultState]

\* An execution of the Start button's click handler: pc is "idle" (none),
\* "exists" (suspended at appLocalDataDir, join and then exists(fullPath)) or
\* "invoke" (transcribe_command is running); model is modelSelect.value as it
\* read it.
IdleRun == [pc |-> "idle", model |-> ""]

RunIds == 1..MaxStarts

\* The main page before it is opened.  listing is the position in MODEL_KEYS
\* whose exists() refreshModelSelect awaits, 0 before the page is loaded and
\* Len(MODEL_KEYS) + 1 when the list is complete; options and value are the
\* model select's options and its value; selectedFilePath is "" for null;
\* startDisabled is startBtn.disabled.
OffMain ==
    [listing |-> 0, options |-> {}, value |-> "", selectedFilePath |-> "",
     startDisabled |-> FALSE, runs |-> [r \in RunIds |-> IdleRun]]

\* checkExistingFiles when it has returned, or when the page was loaded before
\* the behaviour starts.
DoneRecon ==
    [pc |-> "done", i |-> 0, states |-> defaultState, changed |-> FALSE]

TypeOK ==
    /\ store \in [Keys -> [state : {"not-downloaded", "downloading", "downloaded"},
                           progress : Int]]
    /\ abortControllers \in [Keys -> 0..MaxAttempts]
    /\ file \in [Keys -> [exists : BOOLEAN, nonempty : BOOLEAN]]
    /\ nAtt \in 0..MaxAttempts
    /\ pendingRemove \subseteq Keys
    /\ \A a \in AttemptIds :
          /\ att[a].key \in Keys
          /\ att[a].pc \in {"idle", "fetch", "create", "read", "write", "close", "done"}
          /\ (a > nAtt) = (att[a].pc = "idle")

Init ==
    /\ store = defaultState
    /\ abortControllers = [k \in Keys |-> 0]
    /\ file = [k \in Keys |-> NoFile]
    /\ att = [a \in AttemptIds |-> IdleAttempt]
    /\ nAtt = 0
    /\ pendingRemove = {}
    /\ startup = OffStartup
    /\ recon = DoneRecon
    /\ mainWin = OffMain

----------------------------------------------------------------------------
\* startDownload: the ways an execution leaves the try block

\* A return that leaves the registry as it is (no finally block).
Return_KeepsHandle(a) ==
    /\ att' = [att EXCEPT ![a] = DoneAttempt(a)]
    /\ UNCHANGED abortControllers

\* `finally { delete abortControllers[key] }` after a return or a caught error.
Return(a) ==
    /\ att' = [att EXCEPT ![a] = DoneAttempt(a)]
    /\ abortControllers' = [abortControllers EXCEPT ![att[a].key] = 0]

\* catch, error.name is not 'AbortError': the local snapshot is saved with the
\* key's state reverted.
Catch(a) ==
    /\ store' = [att[a].states EXCEPT ![att[a].key].state = "not-downloaded"]
    /\ Return(a)

\* catch, error.name === 'AbortError': return, nothing saved.
AbortError(a) ==
    /\ UNCHANGED store
    /\ Return(a)

\* Head of the while loop with the locals `locals` and the store `latest`:
\* break and return when the persisted state of the key is not 'downloading',
\* else issue reader.read().
LoopHead(a, locals, latest) ==
    IF latest[locals.key].state # "downloading"
    THEN Return(a)
    ELSE /\ att' = [att EXCEPT ![a] = [locals EXCEPT !.pc = "read"]]
         /\ UNCHANGED abortControllers

----------------------------------------------------------------------------
\* Intents

\* startDownload with the early return taken on 'downloaded' instead of
\* 'downloading'.
startDownload_WrongGuard(key) ==
    IF store[key].state = "downloaded"
    THEN UNCHANGED vars
    ELSE /\ nAtt < MaxAttempts
         /\ LET a == nAtt + 1
                states == [store EXCEPT ![key] = ModelState("downloading", 0)]
            IN  /\ nAtt' = a
                /\ abortControllers' = [abortControllers EXCEPT ![key] = a]
                /\ store' = states
                /\ att' = [att EXCEPT ![a] = [IdleAttempt EXCEPT !.key = key,
                                                !.pc = "fetch",
                                                !.states = states]]
         /\ UNCHANGED <<file, pendingRemove, pageVars>>

\* startDownload without `states[key].progress = 0`.
startDownload_KeepsProgress(key) ==
    IF store[key].state = "downloading"
    THEN UNCHANGED vars
    ELSE /\ nAtt < MaxAttempts
         /\ LET a == nAtt + 1
                states == [store EXCEPT ![key].state = "downloading"]
            IN  /\ nAtt' = a
                /\ abortControllers' = [abortControllers EXCEPT ![key] = a]
                /\ store' = states
                /\ att' = [att EXCEPT ![a] = [IdleAttempt EXCEPT !.key = key,
                                                !.pc = "fetch",
                                                !.states = states]]
         /\ UNCHANGED <<file, pendingRemove, pageVars>>

startDownload(key) ==
    IF store[key].state = "downloading"
    THEN UNCHANGED vars
    ELSE /\ nAtt < MaxAttempts
         /\ LET a == nAtt + 1
                states == [store EXCEPT ![key] = ModelState("downloading", 0)]
            IN  /\ nAtt' = a
                /\ abortControllers' = [abortControllers EXCEPT ![key] = a]
                /\ store' = states
                /\ att' = [att EXCEPT ![a] = [IdleAttempt EXCEPT !.key = key,
                                                !.pc = "fetch",
                                                !.states = states]]
         /\ UNCHANGED <<file, pendingRemove, pageVars>>

cancelDownload(key) ==
    /\ att' = [a \in AttemptIds |->
                 IF att[a].key = key /\ InFlight(a)
                 THEN [att[a] EXCEPT
                         !.aborted = @ \/ abortControllers[key] = a,
                         !.cancelled = @ \/ store[key].state = "downloading"]
                 ELSE att[a]]
    /\ abortControllers' = [abortControllers EXCEPT ![key] = 0]
    /\ store' = [store EXCEPT ![key] = ModelState("not-downloaded", 0)]
    /\ pendingRemove' = pendingRemove \cup {key}
    /\ UNCHANGED <<file, nAtt, pageVars>>

\* remove() of models/<key>.bin takes effect: open handles keep the unlinked file.
Unlink(key) ==
    /\ file' = [file EXCEPT ![key] = NoFile]
    /\ att' = [a \in AttemptIds |->
                 IF att[a].key = key THEN [att[a] EXCEPT !.fhLive = FALSE]
                 ELSE att[a]]

\* The remove() cancelDownload issued runs; its outcome is ignored.  One
\* outstanding remove per key is tracked.
CancelRemove(key) ==
    /\ key \in pendingRemove
    /\ pendingRemove' = pendingRemove \ {key}
    /\ \/ file[key].exists /\ Unlink(key)
       \/ UNCHANGED <<file, att>>
    /\ UNCHANGED <<store, abortControllers, nAtt, pageVars>>

\* deleteDownload awaits remove() and only then loads, resets and saves the
\* record.  The intent may arrive at any moment, so the step is taken when
\* remove() settles: it resolved (the file existed), or it threw and the catch
\* block only logs.
deleteDownload(key) ==
    /\ IF file[key].exists
       THEN \E removed \in BOOLEAN :
               IF removed
               THEN /\ Unlink(key)
                    /\ store' = [store EXCEPT ![key] = ModelState("not-downloaded", 0)]
               ELSE UNCHANGED <<file, att, store>>
       ELSE UNCHANGED <<file, att, store>>
    /\ UNCHANGED <<abortControllers, nAtt, pendingRemove, pageVars>>

----------------------------------------------------------------------------
\* Transfer events: the awaits of startDownload resolving

\* mkdir() and then fetch() resolved with an ok response that has a body;
\* create() is issued.  The two awaits are one stage: nothing is read or written
\* between them, and abort() during either makes fetch() reject.
FetchDone(a) ==
    /\ att[a].pc = "fetch"
    /\ ~att[a].aborted
    /\ \E total \in Totals :
          att' = [att EXCEPT ![a].pc = "create", ![a].totalLength = total]
    /\ UNCHANGED <<store, abortControllers, file, nAtt, pendingRemove, pageVars>>

\* A pending fetch() or reader.read() rejects with AbortError after abort().
Aborted(a) ==
    /\ att[a].pc \in {"fetch", "read"}
    /\ att[a].aborted
    /\ AbortError(a)
    /\ UNCHANGED <<file, nAtt, pendingRemove, pageVars>>

\* Any awaited operation rejects with another error (mkdir, fetch, !response.ok,
\* missing body, create, read, write, close, path resolution).
Failed(a) ==
    /\ InFlight(a)
    /\ Catch(a)
    /\ UNCHANGED <<file, nAtt, pendingRemove, pageVars>>

\* create() resolving with a file at some other path than getModelPath(key).
CreateDone_OtherPath(a) ==
    /\ att[a].pc = "create"
    /\ file' = file
    /\ LoopHead(a, [att[a] EXCEPT !.fhLive = TRUE], store)
    /\ UNCHANGED <<store, nAtt, pendingRemove, pageVars>>

CreateDone(a) ==
    /\ att[a].pc = "create"
    /\ file' = [file EXCEPT ![att[a].key] = [exists |-> TRUE, nonempty |-> FALSE]]
    /\ LoopHead(a, [att[a] EXCEPT !.fhLive = TRUE], store)
    /\ UNCHANGED <<store, nAtt, pendingRemove, pageVars>>

\* reader.read() resolves with a chunk; fileHandle.write(value) is issued.
\* The signal given to fetch() also errors the body stream, so a read of an
\* aborted attempt only rejects (Aborted).
ReadChunk(a) ==
    /\ att[a].pc = "read"
    /\ ~att[a].aborted
    /\ att[a].receivedLength + ChunkLength <= MaxReceived
    /\ att' = [att EXCEPT ![a].pc = "write"]
    /\ UNCHANGED <<store, abortControllers, file, nAtt, pendingRemove, pageVars>>

\* reader.read() resolves with done: the final check, then "end on 100%".
ReadEnd(a) ==
    /\ att[a].pc = "read"
    /\ ~att[a].aborted
    /\ IF store[att[a].key].state # "downloading"
       THEN /\ Return(a)
            /\ UNCHANGED store
       ELSE LET states == [att[a].states EXCEPT ![att[a].key].progress = 100]
            IN  /\ store' = states
                /\ att' = [att EXCEPT ![a].states = states, ![a].pc = "close"]
                /\ UNCHANGED abortControllers
    /\ UNCHANGED <<file, nAtt, pendingRemove, pageVars>>

\* WriteDone without the `totalLength > 0` test: with no declared total the
\* bytes received so far are taken as the total.
WriteDone_CountsUnknownTotal(a) ==
    /\ att[a].pc = "write"
    /\ \E elapsed \in BOOLEAN :
        LET key == att[a].key
            received == att[a].receivedLength + ChunkLength
            total == att[a].totalLength
            percent == PercentOf(received, IF total > 0 THEN total ELSE received)
            changed == percent # att[a].states[key].progress
            states == IF changed
                      THEN [att[a].states EXCEPT ![key].progress = percent]
                      ELSE att[a].states
            saves == changed /\ (att[a].lastRenderTime = 0 \/ elapsed)
            latest == IF saves THEN states ELSE store
            locals == [att[a] EXCEPT !.receivedLength = received,
                                     !.states = states,
                                     !.lastRenderTime = IF saves THEN 1 ELSE @]
        IN  /\ store' = latest
            /\ LoopHead(a, locals, latest)
    /\ file' = IF att[a].fhLive
               THEN [file EXCEPT ![att[a].key].nonempty = TRUE]
               ELSE file
    /\ UNCHANGED <<nAtt, pendingRemove, pageVars>>

\* fileHandle.write(value) resolves: progress bookkeeping, throttled save, loop head.
\* `elapsed` is whether more than 30 ms passed since lastRenderTime.
WriteDone(a) ==
    /\ att[a].pc = "write"
    /\ \E elapsed \in BOOLEAN :
        LET key == att[a].key
            received == att[a].receivedLength + ChunkLength
            total == att[a].totalLength
            percent == PercentOf(received, total)
            changed == total > 0 /\ percent # att[a].states[key].progress
            states == IF changed
                      THEN [att[a].states EXCEPT ![key].progress = percent]
                      ELSE att[a].states
            saves == changed /\ (att[a].lastRenderTime = 0 \/ elapsed)
            latest == IF saves THEN states ELSE store
            locals == [att[a] EXCEPT !.receivedLength = received,
                                     !.states = states,
                                     !.lastRenderTime = IF saves THEN 1 ELSE @]
        IN  /\ store' = latest
            /\ LoopHead(a, locals, latest)
    /\ file' = IF att[a].fhLive
               THEN [file EXCEPT ![att[a].key].nonempty = TRUE]
               ELSE file
    /\ UNCHANGED <<nAtt, pendingRemove, pageVars>>

\* fileHandle.close(), appLocalDataDir() and join() resolved (three awaits with
\* nothing read or written between them): the record is saved as 'downloaded'.
CloseDone(a) ==
    /\ att[a].pc = "close"
    /\ store' = [att[a].states EXCEPT ![att[a].key] = ModelState("downloaded", 100)]
    /\ Return(a)
    /\ UNCHANGED <<file, nAtt, pendingRemove, pageVars>>

TransferStep(a) ==
    \/ FetchDone(a)
    \/ CreateDone(a)
    \/ ReadChunk(a)
    \/ WriteDone(a)
    \/ ReadEnd(a)
    \/ CloseDone(a)
    \/ Aborted(a)
    \/ Failed(a)

Next ==
    \/ \E key \in Keys : startDownload(key)
    \/ \E key \in Keys : cancelDownload(key)
    \/ \E key \in Keys : deleteDownload(key)
    \/ \E key \in Keys : CancelRemove(key)
    \/ \E a \in AttemptIds : TransferStep(a)

Spec == Init /\ [][Next]_vars

\* The intents as the settings page can send them: render() gives each row one
\* button, chosen by the persisted state it has just loaded, and every save in
\* the code is followed by render().
ClickDownload(key) ==
    /\ store[key].state = "not-downloaded"
    /\ startDownload(key)

ClickCancel(key) ==
    /\ store[key].state = "downloading"
    /\ cancelDownload(key)

ClickDelete(key) ==
    /\ store[key].state = "downloaded"
    /\ deleteDownload(key)

NextUI ==
    \/ \E key \in Keys : ClickDownload(key)
    \/ \E key \in Keys : ClickCancel(key)
    \/ \E key \in Keys : ClickDelete(key)
    \/ \E key \in Keys : CancelRemove(key)
    \/ \E a \in AttemptIds : TransferStep(a)

SpecUI == Init /\ [][NextUI]_vars

----------------------------------------------------------------------------
\* The startup functions on every stored item: the DOMContentLoaded handler run
\* statement by statement with no intent in between, and the process restarted.
\* The item lives in startup.item and the disk is `file`; the session
\* variables stay as Init leaves them.

sessionVars == <<store, abortControllers, att, nAtt, pendingRemove>>

InitReconcile ==
    /\ store = defaultState
    /\ abortControllers = [k \in Keys |-> 0]
    /\ att = [a \in AttemptIds |-> IdleAttempt]
    /\ nAtt = 0
    /\ pendingRemove = {}
    /\ recon = DoneRecon
    /\ mainWin = OffMain
    /\ file \in [Keys -> Files]
    /\ \E item \in Items :
          startup = [OffStartup EXCEPT !.stage = "stored", !.item = item,
                                       !.input = item, !.run = 1]

\* loadStates() applied to the stored item.
Load ==
    /\ startup.stage = "stored"
    /\ startup.run = 1
    /\ startup' = [startup EXCEPT !.stage = "loaded",
                                  !.loaded = loadStates(startup.item)]
    /\ UNCHANGED <<sessionVars, file, recon, mainWin>>

\* normalizeStatesOnStartup(), first statement of the handler.
Normalize ==
    /\ startup.stage = "stored"
    /\ LET r == normalizeStatesOnStartup(startup.item)
       IN  startup' = [startup EXCEPT !.stage = "normalized", !.item = r.item,
                                      !.wrote = r.wrote]
    /\ UNCHANGED <<sessionVars, file, recon, mainWin>>

\* render(), second statement: it loads the store and reads every record.
Render ==
    /\ startup.stage = "normalized"
    /\ LET states == loadStates(startup.item)
       IN  startup' = [startup EXCEPT
                         !.stage = IF ReadThrows(states) THEN "crashed" ELSE "rendered",
                         !.loaded = states]
    /\ UNCHANGED <<sessionVars, file, recon, mainWin>>

\* checkExistingFiles(), third statement, run to its end.
CheckFiles ==
    /\ startup.stage = "rendered"
    /\ LET r == checkExistingFiles(startup.item, file)
       IN  startup' = [startup EXCEPT !.stage = "checked", !.item = r.item,
                                      !.wrote = @ \/ r.wrote,
                                      !.loaded = loadStates(r.item)]
    /\ UNCHANGED <<sessionVars, file, recon, mainWin>>

\* The process is started again on what the run left in localStorage, the disk
\* unchanged.
Restart ==
    /\ startup.stage \in {"checked", "crashed"}
    /\ startup.run < MaxRuns
    /\ startup' = [startup EXCEPT !.stage = "stored", !.run = @ + 1,
                                  !.wrote = FALSE,
                                  !.first = IF startup.run = 1 THEN startup.item ELSE @]
    /\ UNCHANGED <<sessionVars, file, recon, mainWin>>

NextReconcile ==
    \/ Load
    \/ Normalize
    \/ Render
    \/ CheckFiles
    \/ Restart

SpecReconcile == InitReconcile /\ [][NextReconcile]_vars

----------------------------------------------------------------------------
\* The settings page from its load: the DOMContentLoaded handler, the awaits
\* of checkExistingFiles, and the intents and transfers beside them.  Before
\* DOMContentLoaded the page has no buttons; render() in the handler makes them.

\* The records a previous session can have left in the store.
PersistedRecords ==
    {ModelState(s, p) : s \in {"not-downloaded", "downloading", "downloaded"},
                        p \in StoredProgress}

InitPageLoad ==
    /\ store \in [Keys -> PersistedRecords]
    /\ file \in [Keys -> Files]
    /\ abortControllers = [k \in Keys |-> 0]
    /\ att = [a \in AttemptIds |-> IdleAttempt]
    /\ nAtt = 0
    /\ pendingRemove = {}
    /\ startup = OffStartup
    /\ recon = [DoneRecon EXCEPT !.pc = "load"]
    /\ mainWin = OffMain

\* The for loop of checkExistingFiles from position i of MODEL_KEYS, with the
\* locals `states` and `changed` and the store holding `latest`: it suspends at
\* exists() for the next key whose record in `states` is 'downloaded'; with no
\* such key left it saves `states` if changed, renders and returns.
CheckFrom(i, states, changed, latest) ==
    LET rest == {j \in i..Len(MODEL_KEYS) :
                    /\ MODEL_KEYS[j] \in Keys
                    /\ states[MODEL_KEYS[j]].state = "downloaded"}
    IN  IF rest = {}
        THEN /\ store' = IF changed THEN states ELSE latest
             /\ recon' = DoneRecon
        ELSE /\ store' = latest
             /\ recon' = [pc |-> "exists",
                          i |-> CHOOSE j \in rest : \A l \in rest : j <= l,
                          states |-> states, changed |-> changed]

\* The handler: normalizeStatesOnStartup(); render(); checkExistingFiles() up to
\* its first await.
DOMContentLoaded ==
    /\ recon.pc = "load"
    /\ LET normalized == loadStates(normalizeStatesOnStartup(JObject(store)).item)
       IN  CheckFrom(1, normalized, FALSE, normalized)
    /\ UNCHANGED <<abortControllers, file, att, nAtt, pendingRemove, startup, mainWin>>

\* exists() resolves for the key at position recon.i.
ExistsDone ==
    /\ recon.pc = "exists"
    /\ LET key == MODEL_KEYS[recon.i]
       IN  IF file[key].exists
           THEN CheckFrom(recon.i + 1, recon.states, recon.changed, store)
           ELSE CheckFrom(recon.i + 1,
                          [recon.states EXCEPT ![key] = ModelState("not-downloaded", 0)],
                          TRUE, store)
    /\ UNCHANGED <<abortControllers, file, att, nAtt, pendingRemove, startup, mainWin>>

\* exists() rejects: checkExistingFiles ends there, its promise is not handled.
ExistsFailed ==
    /\ recon.pc = "exists"
    /\ recon' = DoneRecon
    /\ UNCHANGED <<store, abortControllers, file, att, nAtt, pendingRemove,
                   startup, mainWin>>

\* The buttons of the loaded page.
PageDownload(key) ==
    /\ recon.pc # "load"
    /\ nAtt < MaxPageAttempts
    /\ ClickDownload(key)

PageCancel(key) ==
    /\ recon.pc # "load"
    /\ ClickCancel(key)

PageDelete(key) ==
    /\ recon.pc # "load"
    /\ ClickDelete(key)

NextPageLoad ==
    \/ DOMContentLoaded
    \/ ExistsDone
    \/ ExistsFailed
    \/ \E key \in Keys : PageDownload(key)
    \/ \E key \in Keys : PageCancel(key)
    \/ \E key \in Keys : PageDelete(key)
    \/ \E key \in Keys : CancelRemove(key)
    \/ \E a \in AttemptIds : TransferStep(a)

SpecPageLoad == InitPageLoad /\ [][NextPageLoad]_vars

----------------------------------------------------------------------------
\* The main page (main.ts) beside the settings page: both read the files under
\* models/ in the application's local data directory.

\* Paths a drop or the file input can hand to setSelectedFile.
DroppedPaths == {"audio.wav", "audio.WAV", "notes.txt"}

\* filePath.split(".").pop()?.toLowerCase() for the paths above.
Extension(path) ==
    CASE path = "audio.wav" -> "wav"
      [] path = "audio.WAV" -> "wav"
      [] path = "notes.txt" -> "txt"
      [] OTHER -> ""

allowedExtensions == {"wav"}

isValidFileExtension(path) == Extension(path) \in allowedExtensions

\* The first position from i on whose key is modelled, Len(MODEL_KEYS) + 1 if none.
NextListed(i) ==
    LET rest == {j \in i..Len(MODEL_KEYS) : MODEL_KEYS[j] \in Keys}
    IN  IF rest = {} THEN Len(MODEL_KEYS) + 1
        ELSE CHOOSE j \in rest : \A l \in rest : j <= l

\* Some models were downloaded in earlier sessions, the others never were.
InitMain ==
    /\ \E present \in SUBSET Keys :
          /\ store = [k \in Keys |-> IF k \in present
                                     THEN ModelState("downloaded", 100)
                                     ELSE ModelState("not-downloaded", 0)]
          /\ file = [k \in Keys |-> IF k \in present
                                    THEN [exists |-> TRUE, nonempty |-> TRUE]
                                    ELSE NoFile]
    /\ abortControllers = [k \in Keys |-> 0]
    /\ att = [a \in AttemptIds |-> IdleAttempt]
    /\ nAtt = 0
    /\ pendingRemove = {}
    /\ startup = OffStartup
    /\ recon = DoneRecon
    /\ \E disabled \in BOOLEAN : mainWin = [OffMain EXCEPT !.startDisabled = disabled]

\* DOMContentLoaded of the main page: the handlers are attached and
\* refreshModelSelect() empties the select and awaits its first exists().
MainLoaded ==
    /\ mainWin.listing = 0
    /\ mainWin' = [mainWin EXCEPT !.listing = NextListed(1), !.options = {},
                                  !.value = ""]
    /\ UNCHANGED <<sessionVars, file, startup, recon>>

\* exists() of refreshModelSelect settles for the key at position listing (a
\* rejection counts as false): the key becomes an option when its file is on
\* disk, the first option becomes the select's value; after the last key the
\* Start button is set.
ListExists ==
    /\ mainWin.listing \in 1..Len(MODEL_KEYS)
    /\ LET key == MODEL_KEYS[mainWin.listing]
           options == IF file[key].exists THEN mainWin.options \cup {key}
                      ELSE mainWin.options
           value == IF mainWin.options = {} /\ file[key].exists THEN key
                    ELSE mainWin.value
           next == NextListed(mainWin.listing + 1)
       IN  mainWin' = [mainWin EXCEPT
                         !.listing = next, !.options = options, !.value = value,
                         !.startDisabled =
                             IF next <= Len(MODEL_KEYS) THEN @
                             ELSE IF options = {} THEN TRUE
                             ELSE mainWin.selectedFilePath = ""]
    /\ UNCHANGED <<sessionVars, file, startup, recon>>

\* The user picks another option of the model select.
PickModel(key) ==
    /\ key \in mainWin.options
    /\ mainWin' = [mainWin EXCEPT !.value = key]
    /\ UNCHANGED <<sessionVars, file, startup, recon>>

\* chooseFile: the dialog returns a .wav path or null.
chooseFile(selection) ==
    /\ mainWin.listing > 0
    /\ mainWin' = [mainWin EXCEPT !.selectedFilePath = selection,
                                  !.startDisabled = (selection = "")]
    /\ UNCHANGED <<sessionVars, file, startup, recon>>

\* setSelectedFile(path) from a drop or the file input.
setSelectedFile(path) ==
    /\ mainWin.listing > 0
    /\ IF ~isValidFileExtension(path)
       THEN UNCHANGED mainWin
       ELSE mainWin' = [mainWin EXCEPT !.selectedFilePath = path,
                                       !.startDisabled = FALSE]
    /\ UNCHANGED <<sessionVars, file, startup, recon>>

\* A click on the enabled Start button with a file and a model selected: the
\* handler suspends at appLocalDataDir(), join() and exists(fullPath).
StartClick(r) ==
    /\ mainWin.listing > 0
    /\ ~mainWin.startDisabled
    /\ mainWin.selectedFilePath # ""
    /\ mainWin.value # ""
    /\ mainWin.runs[r].pc = "idle"
    /\ \A q \in RunIds : q < r => mainWin.runs[q].pc # "idle"
    /\ mainWin' = [mainWin EXCEPT !.runs[r] = [pc |-> "exists", model |-> mainWin.value]]
    /\ UNCHANGED <<sessionVars, file, startup, recon>>

\* exists(fullPath) settles: without the file the handler returns; with it the
\* button is disabled and transcribe_command is invoked with the path.
StartExists(r) ==
    /\ mainWin.runs[r].pc = "exists"
    /\ IF file[mainWin.runs[r].model].exists
       THEN mainWin' = [mainWin EXCEPT !.runs[r].pc = "invoke", !.startDisabled = TRUE]
       ELSE mainWin' = [mainWin EXCEPT !.runs[r] = IdleRun]
    /\ UNCHANGED <<sessionVars, file, startup, recon>>

\* invoke() settles: finally { startBtn.disabled = !selectedFilePath }.
TranscribeDone(r) ==
    /\ mainWin.runs[r].pc = "invoke"
    /\ mainWin' = [mainWin EXCEPT !.runs[r] = IdleRun,
                                  !.startDisabled = (mainWin.selectedFilePath = "")]
    /\ UNCHANGED <<sessionVars, file, startup, recon>>

NextMain ==
    \/ MainLoaded
    \/ ListExists
    \/ \E key \in Keys : PickModel(key)
    \/ \E selection \in {"", "audio.wav"} : chooseFile(selection)
    \/ \E path \in DroppedPaths : setSelectedFile(path)
    \/ \E r \in RunIds : StartClick(r)
    \/ \E r \in RunIds : StartExists(r)
    \/ \E r \in RunIds : TranscribeDone(r)
    \/ \E key \in Keys : PageDownload(key)
    \/ \E key \in Keys : PageCancel(key)
    \/ \E key \in Keys : PageDelete(key)
    \/ \E key \in Keys : CancelRemove(key)
    \/ \E a \in AttemptIds : TransferStep(a)

SpecMain == InitMain /\ [][NextMain]_vars

----------------------------------------------------------------------------
\* The round trip of a downloaded model: every model is Present at the start,
\* and each model is deleted and downloaded again at most once, with no Cancel.

InitRoundTrip ==
    /\ store = [k \in Keys |-> ModelState("downloaded", 100)]
    /\ file = [k \in Keys |-> [exists |-> TRUE, nonempty |-> TRUE]]
    /\ abortControllers = [k \in Keys |-> 0]
    /\ att = [a \in AttemptIds |-> IdleAttempt]
    /\ nAtt = 0
    /\ pendingRemove = {}
    /\ startup = OffStartup
    /\ recon = DoneRecon
    /\ mainWin = OffMain

\* No startDownload execution has been started for the key.
NotYetDownloaded(key) == \A a \in AttemptIds : att[a].pc = "idle" \/ att[a].key # key

TripDelete(key) ==
    /\ NotYetDownloaded(key)
    /\ ClickDelete(key)

TripDownload(key) ==
    /\ NotYetDownloaded(key)
    /\ ClickDownload(key)

\* The transfer events of an execution whose signal is never aborted.
UncancelledStep(a) ==
    \/ FetchDone(a)
    \/ CreateDone(a)
    \/ ReadChunk(a)
    \/ WriteDone(a)
    \/ ReadEnd(a)
    \/ CloseDone(a)
    \/ Failed(a)

NextRoundTrip ==
    \/ \E key \in Keys : TripDelete(key)
    \/ \E key \in Keys : TripDownload(key)
    \/ \E a \in AttemptIds : UncancelledStep(a)

SpecRoundTrip == InitRoundTrip /\ [][NextRoundTrip]_vars

----------------------------------------------------------------------------
\* The variant of the settings page in part_000: loadStates resets every
\* 'downloading' record it reads, there is no normalizeStatesOnStartup, the
\* loop neither reads the store nor throttles its saves, and nothing is saved
\* between the end of the stream and the close.  Every saveStates is followed
\* by render(), which shows loadStates(): the page never shows a Cancel button,
\* so cancelDownload is never called and no signal is ever aborted.

\* loadStates of part_000 on a stored mapping of records.
loadStatesInline(stored) ==
    [k \in Keys |->
        IF stored[k].state = "downloading"
        THEN ModelState("not-downloaded", 0)
        ELSE stored[k]]

startDownloadInline(key) ==
    IF loadStatesInline(store)[key].state = "downloading"
    THEN UNCHANGED vars
    ELSE /\ nAtt < MaxAttempts
         /\ LET a == nAtt + 1
                states == [loadStatesInline(store) EXCEPT
                              ![key] = ModelState("downloading", 0)]
            IN  /\ nAtt' = a
                /\ abortControllers' = [abortControllers EXCEPT ![key] = a]
                /\ store' = states
                /\ att' = [att EXCEPT ![a] = [IdleAttempt EXCEPT !.key = key,
                                                !.pc = "fetch",
                                                !.states = states]]
         /\ UNCHANGED <<file, pendingRemove, pageVars>>

\* deleteDownload of part_000, taken when remove() settles.
deleteDownloadInline(key) ==
    /\ IF file[key].exists
       THEN \E removed \in BOOLEAN :
               IF removed
               THEN /\ Unlink(key)
                    /\ store' = [loadStatesInline(store) EXCEPT
                                    ![key] = ModelState("not-downloaded", 0)]
               ELSE UNCHANGED <<file, att, store>>
       ELSE UNCHANGED <<file, att, store>>
    /\ UNCHANGED <<abortControllers, nAtt, pendingRemove, pageVars>>

\* create() resolves; reader.read() is issued.
CreateDoneInline(a) ==
    /\ att[a].pc = "create"
    /\ file' = [file EXCEPT ![att[a].key] = [exists |-> TRUE, nonempty |-> FALSE]]
    /\ att' = [att EXCEPT ![a].fhLive = TRUE, ![a].pc = "read"]
    /\ UNCHANGED <<store, abortControllers, nAtt, pendingRemove, pageVars>>

\* fileHandle.write(value) resolves: the progress is saved whenever the
\* percentage changed, and the next reader.read() is issued.
WriteDoneInline(a) ==
    /\ att[a].pc = "write"
    /\ LET key == att[a].key
           received == att[a].receivedLength + ChunkLength
           total == att[a].totalLength
           percent == PercentOf(received, total)
           changed == total > 0 /\ percent # att[a].states[key].progress
           states == IF changed
                     THEN [att[a].states EXCEPT ![key].progress = percent]
                     ELSE att[a].states
       IN  /\ store' = IF changed THEN states ELSE store
           /\ att' = [att EXCEPT ![a].receivedLength = received,
                                 ![a].states = states,
                                 ![a].pc = "read"]
    /\ file' = IF att[a].fhLive
               THEN [file EXCEPT ![att[a].key].nonempty = TRUE]
               ELSE file
    /\ UNCHANGED <<abortControllers, nAtt, pendingRemove, pageVars>>

\* reader.read() resolves with done: break, fileHandle.close() is issued.
ReadEndInline(a) ==
    /\ att[a].pc = "read"
    /\ att' = [att EXCEPT ![a].pc = "close"]
    /\ UNCHANGED <<store, abortControllers, file, nAtt, pendingRemove, pageVars>>

\* The buttons render() of part_000 builds from loadStates().
ClickDownloadInline(key) ==
    /\ loadStatesInline(store)[key].state = "not-downloaded"
    /\ startDownloadInline(key)

ClickDeleteInline(key) ==
    /\ loadStatesInline(store)[key].state = "downloaded"
    /\ deleteDownloadInline(key)

\* The transfer events of part_000; fetch, a read giving a chunk, the close
\* and the catch block are as in part_001.
TransferStepInline(a) ==
    \/ FetchDone(a)
    \/ CreateDoneInline(a)
    \/ ReadChunk(a)
    \/ WriteDoneInline(a)
    \/ ReadEndInline(a)
    \/ CloseDone(a)
    \/ Failed(a)

NextInline ==
    \/ \E key \in Keys : ClickDownloadInline(key)
    \/ \E key \in Keys : ClickDeleteInline(key)
    \/ \E a \in AttemptIds : TransferStepInline(a)

SpecInline == Init /\ [][NextInline]_vars

----------------------------------------------------------------------------
\* Claims

\* An execution of startDownload that can still read from the network or write
\* to the destination file: a write is pending, or it is before the end of the
\* stream and its signal has not been aborted (after abort() its next fetch or
\* read rejects).
Active(a) ==
    \/ att[a].pc = "write"
    \/ att[a].pc \in {"fetch", "create", "read"} /\ ~att[a].aborted

\* C1: in every reachable state at most one transfer loop is active per
\* identifier.
C1_OneTransferPerKey ==
    \A a, b \in AttemptIds :
        (a # b /\ Active(a) /\ Active(b)) => att[a].key # att[b].key

\* C2: no step of the transfer of one identifier changes the persisted record
\* of another identifier.
C2_Independent ==
    [][\A a \in AttemptIds :
          TransferStep(a) =>
              \A k \in Keys \ {att[a].key} : store'[k] = store[k]]_vars

\* No startDownload execution other than a has been started.
OnlyAttempt(a) == \A b \in AttemptIds \ {a} : att[b].pc = "idle"

\* C3: once an attempt that was cancelled while Downloading has returned, the
\* persisted record of its identifier is NotPresent with progress 0 (stated for
\* a session with that single attempt, so that nothing else writes the record).
C3_CancelSettles ==
    \A a \in AttemptIds :
        (att[a].pc = "done" /\ att[a].cancelled /\ OnlyAttempt(a))
            => store[att[a].key] = ModelState("not-downloaded", 0)

\* C4: an attempt for which Cancel has been issued never publishes Present for
\* its identifier.
C4_NoPresentAfterCancel ==
    [][\A a \in AttemptIds :
          (att[a].cancelled /\ TransferStep(a) /\ store' # store)
              => store'[att[a].key].state # "downloaded"]_vars

\* C5: in every persisted state, Present implies progress 100 and NotPresent
\* implies progress 0.
C5_SettledProgress ==
    \A k \in Keys :
        /\ store[k].state = "downloaded" => store[k].progress = 100
        /\ store[k].state = "not-downloaded" => store[k].progress = 0

\* C6: when an attempt ends in Failed, the persisted record of its identifier
\* becomes NotPresent with progress 0.
C6_FailedReverts ==
    [][\A a \in AttemptIds :
          Failed(a) => store'[att[a].key] = ModelState("not-downloaded", 0)]_vars

\* C7: while an identifier stays Downloading, the progress published for it
\* never decreases.
C7_ProgressMonotone ==
    [][\A k \in Keys :
          (store[k].state = "downloading" /\ store'[k].state = "downloading")
              => store'[k].progress >= store[k].progress]_vars

\* C8: after Cancel has published the terminal NotPresent for an attempt, that
\* attempt changes the published record of its identifier no more.
C8_TerminalIsLast ==
    [][\A a \in AttemptIds :
          (att[a].cancelled /\ TransferStep(a))
              => store'[att[a].key] = store[att[a].key]]_vars

\* C9: the persisted progress of every identifier is an integer in 0..100.
C9_ProgressRange ==
    \A k \in Keys : store[k].progress \in 0..100

\* C10: a Download intent for an identifier whose record is Downloading changes
\* nothing (store, handle registry, files, transfers) and starts no transfer; any
\* other Download intent starts exactly one transfer and leaves the record
\* Downloading, so that a second consecutive Download intent is the ignored one;
\* and a transfer's step that publishes a terminal state for its identifier is
\* its last step, so one transfer gives at most one terminal notification.
C10_DownloadWhileDownloadingIgnored ==
    [][/\ \A k \in Keys :
            startDownload(k) =>
                IF store[k].state = "downloading"
                THEN UNCHANGED vars
                ELSE /\ nAtt' = nAtt + 1
                     /\ store'[k] = ModelState("downloading", 0)
                     /\ abortControllers'[k] = nAtt'
                     /\ file' = file
       /\ \A a \in AttemptIds :
            (/\ TransferStep(a)
             /\ store'[att[a].key] # store[att[a].key]
             /\ store'[att[a].key].state # "downloading") => att'[a].pc = "done"]_vars

\* C10 witness: an identifier is mid-transfer with its record Downloading, one
\* transfer has been started for it, and a Download intent for it is accepted
\* and leaves the state as it is.
C10_Witness ==
    \E k \in Keys :
        /\ store[k].state = "downloading"
        /\ nAtt = 1
        /\ att[1].key = k /\ att[1].pc = "write"
        /\ ENABLED (startDownload(k) /\ UNCHANGED vars)

\* C11: an intent that matches no legal transition from the identifier's
\* current persisted state leaves its record, its entry in the handle registry
\* and its destination file unchanged: Cancel when the record is NotPresent or
\* Present, Delete when it is NotPresent or Downloading, Download when it is
\* Present.
C11_IllegalIntentNoOp ==
    [][\A k \in Keys :
          (\/ store[k].state # "downloading" /\ cancelDownload(k)
           \/ store[k].state # "downloaded" /\ deleteDownload(k)
           \/ store[k].state = "downloaded" /\ startDownload(k))
              => /\ store'[k] = store[k]
                 /\ abortControllers'[k] = abortControllers[k]
                 /\ file'[k] = file[k]]_vars

\* C12: the startup reconciliation has finished, its repair write included,
\* before any Download, Cancel or Delete intent is accepted, and its write
\* changes no record except the Present records it downgrades, so that it
\* overwrites the effect of no intent.
C12_ReconcileBeforeIntents ==
    [][/\ \A k \in Keys :
            (PageDownload(k) \/ PageCancel(k) \/ PageDelete(k)) => recon.pc = "done"
       /\ ExistsDone =>
            \A k \in Keys :
                \/ store'[k] = store[k]
                \/ /\ store[k].state = "downloaded"
                   /\ store'[k] = ModelState("not-downloaded", 0)]_vars

\* C13: at the first process start, every identifier whose stored record is
\* Downloading reads as NotPresent with progress 0 once normalizeStatesOnStartup
\* has run and before render, whatever the disk holds.
C13_DownloadingResetAtStartup ==
    (startup.stage = "normalized" /\ startup.run = 1 /\ startup.input.t = "object")
        => \A k \in Keys \cap DOMAIN startup.input.f :
              (/\ IsRecord(startup.input.f[k])
               /\ startup.input.f[k].state = "downloading")
                  => loadStates(startup.item)[k] = ModelState("not-downloaded", 0)

\* C13 witness: normalisation has run on a store that held a Downloading record
\* with progress 50 for an identifier whose file is on disk.
C13_Witness ==
    /\ startup.stage = "normalized"
    /\ startup.input.t = "object"
    /\ \E k \in Keys \cap DOMAIN startup.input.f :
          /\ startup.input.f[k] = ModelState("downloading", 50)
          /\ file[k].exists

\* C14: when the startup reconciliation has completed (and no intent has been
\* sent), every identifier whose record is Present has its file on disk with
\* nonzero size.
C14_PresentHasFile ==
    startup.stage = "checked"
        => \A k \in Keys :
              (IsRecord(startup.loaded[k]) /\ startup.loaded[k].state = "downloaded")
                  => file[k].exists /\ file[k].nonempty

\* C15: a second run of the startup reconciliation on what the first run left,
\* the disk unchanged, leaves the same item and calls setItem not once.
C15_ReconcileIdempotent ==
    (startup.run > 1 /\ startup.stage \in {"checked", "crashed"})
        => startup.item = startup.first /\ ~startup.wrote

\* C15 witness: the second run has completed on a store that held a Downloading
\* record with progress 50 and a Present record whose file is absent.
C15_Witness ==
    /\ startup.run = 2
    /\ startup.stage = "checked"
    /\ startup.input.t = "object"
    /\ \E k, l \in Keys \cap DOMAIN startup.input.f :
          /\ startup.input.f[k] = ModelState("downloading", 50)
          /\ startup.input.f[l] = ModelState("downloaded", 100)
          /\ ~file[l].exists

\* A stored item that is a mapping of valid records.
ValidItem(item) ==
    /\ item.t = "object"
    /\ \A k \in DOMAIN item.f :
          /\ IsRecord(item.f[k])
          /\ item.f[k].state \in {"not-downloaded", "downloading", "downloaded"}

\* C16: loadStates on an item that is absent, does not parse, or parses to
\* something else than a mapping of valid records returns the catalog default
\* (it cannot throw: everything is inside its try block).
C16_LoadFallsBackToDefault ==
    (startup.stage = "loaded" /\ ~ValidItem(startup.input))
        => startup.loaded = defaultState

\* C17: loadStates on a stored mapping returns one record for every identifier
\* of the catalog: the stored value where the mapping has the identifier,
\* NotPresent with progress 0 where it has not.
C17_LoadCoversCatalog ==
    (startup.stage = "loaded" /\ startup.input.t = "object")
        => /\ Keys \subseteq DOMAIN startup.loaded
           /\ \A k \in Keys :
                 startup.loaded[k] = IF k \in DOMAIN startup.input.f
                                     THEN startup.input.f[k]
                                     ELSE ModelState("not-downloaded", 0)

\* C17 witness: loadStates was applied to a mapping that has a Present record
\* for one identifier of the catalog and nothing for another.
C17_Witness ==
    /\ startup.stage = "loaded"
    /\ startup.input.t = "object"
    /\ \E k \in Keys \cap DOMAIN startup.input.f :
          /\ startup.input.f[k] = ModelState("downloaded", 100)
          /\ Keys \ DOMAIN startup.input.f # {}

\* C18: from no state in which an identifier is Present can a Delete intent
\* for it end with its record other than NotPresent with progress 0, the
\* removal of the file failing included.
C18_DeleteAlwaysReverts ==
    \A k \in Keys :
        store[k].state = "downloaded"
            => ~ENABLED (/\ deleteDownload(k)
                         /\ store'[k] # ModelState("not-downloaded", 0))

\* C19: a model becomes an option of the model select only while its record is
\* Present, and transcribe_command is invoked only with the path of a model
\* whose record is Present at the time of the call.
C19_OnlyPresentModels ==
    [][/\ ListExists =>
            \A k \in mainWin'.options \ mainWin.options : store[k].state = "downloaded"
       /\ \A r \in RunIds :
            (StartExists(r) /\ mainWin'.runs[r].pc = "invoke")
                => store[mainWin.runs[r].model].state = "downloaded"]_vars

\* C20: a Download intent on a NotPresent identifier leaves, when its
\* execution is suspended at its first directory or network operation, the
\* record of the identifier Downloading with progress 0 in the store and in
\* the execution's own snapshot and the execution's handle registered, with no
\* file touched and no byte received, whatever progress the record had before.
C20_DownloadStartsAtZero ==
    [][\A k \in Keys :
          ClickDownload(k) =>
              LET a == nAtt + 1
              IN  /\ store'[k] = ModelState("downloading", 0)
                  /\ abortControllers'[k] = a
                  /\ att'[a].key = k
                  /\ att'[a].pc = "fetch"
                  /\ att'[a].states[k] = ModelState("downloading", 0)
                  /\ att'[a].receivedLength = 0
                  /\ file' = file]_vars

\* C20 witness: an identifier is NotPresent with the progress 100 a failed
\* attempt left behind, and a Download intent for it is accepted and publishes
\* Downloading with progress 0.
C20_Witness ==
    \E k \in Keys :
        /\ store[k] = ModelState("not-downloaded", 100)
        /\ nAtt = 1
        /\ att[1].key = k /\ att[1].pc = "done"
        /\ ENABLED (ClickDownload(k) /\ store'[k] = ModelState("downloading", 0))

\* C21: an attempt for which no Cancel was issued and whose reader.read()
\* reports the end of the stream goes on to close the file, and when the close
\* has resolved it publishes Present with progress 100 for its identifier and
\* returns, whatever the throttle suppressed and whether or not the total size
\* was known.
C21_ExhaustedEndsPresent ==
    [][\A a \in AttemptIds :
          /\ (ReadEnd(a) /\ ~att[a].cancelled) => att'[a].pc = "close"
          /\ (CloseDone(a) /\ ~att[a].cancelled)
                => /\ store'[att[a].key] = ModelState("downloaded", 100)
                   /\ att'[a].pc = "done"]_vars

\* C22: starting with every model Present, a model that was deleted and then
\* downloaded again is, when that transfer completes, Present with progress 100
\* and its file is on disk at getModelPath of its identifier, the path the
\* deleted file had; distinct identifiers have distinct paths.
C22_DeleteDownloadRoundTrip ==
    [][/\ \A a \in AttemptIds :
            CloseDone(a) => /\ store'[att[a].key] = ModelState("downloaded", 100)
                            /\ file'[att[a].key].exists
       /\ \A k, l \in Keys : getModelPath(k) = getModelPath(l) => k = l]_vars

\* C22 witness: a model that was Present at the start has been deleted and
\* downloaded again by the only execution started so far, which has returned;
\* the model is Present with progress 100 and its file is on disk.
C22_Witness ==
    /\ nAtt = 1
    /\ att[1].pc = "done"
    /\ store[att[1].key] = ModelState("downloaded", 100)
    /\ file[att[1].key].exists

\* Every startDownload execution for the key of a that is still suspended has
\* been cancelled: no Download was accepted for the key since the last Cancel.
NoFreshDownload(a) ==
    \A b \in AttemptIds :
        (att[b].key = att[a].key /\ InFlight(b)) => att[b].cancelled

\* C23: an attempt that was cancelled issues no further operation while no
\* fresh Download for its identifier is running: its fetch does not resolve
\* into a create() of the file, and no chunk it reads is written to the file.
C23_NoWorkAfterCancel ==
    [][\A a \in AttemptIds :
          (att[a].cancelled /\ NoFreshDownload(a))
              => ~(FetchDone(a) \/ ReadChunk(a))]_vars

\* remove() takes effect on the file of key in this step.
Removed(key) == file[key].exists /\ ~file'[key].exists

\* C24: the file of an identifier is not removed while a write of a transfer
\* for that identifier is pending, and no write is issued on a file handle
\* whose file has been removed.
C24_RemovalNeverOverlapsTransfer ==
    [][\A a \in AttemptIds :
          /\ Removed(att[a].key) => att[a].pc # "write"
          /\ ReadChunk(a) => att[a].fhLive]_vars

\* C25: whenever an attempt is in flight and no Cancel was issued for it, the
\* registry holds that attempt's own handle under its identifier.
C25_RegistryHoldsOwnHandle ==
    \A a \in AttemptIds :
        (InFlight(a) /\ ~att[a].cancelled) => abortControllers[att[a].key] = a

\* No execution for the key of a was started after a.
NoNewerAttempt(a) ==
    \A b \in AttemptIds :
        b > a => (att'[b].pc = "idle" \/ att'[b].key # att[a].key)

\* C26: when an attempt returns, for whatever cause, and no newer attempt for
\* its identifier has started, no handle is registered for that identifier.
C26_NoHandleAfterTermination ==
    [][\A a \in AttemptIds :
          (att[a].pc # "done" /\ att'[a].pc = "done" /\ NoNewerAttempt(a))
              => abortControllers'[att[a].key] = 0]_vars

\* C26 witness: the only attempt of the session has returned without a Cancel
\* (so it was its own finally block, not cancelDownload, that touched the
\* registry) and no handle is registered for its identifier.
C26_Witness ==
    /\ nAtt = 1
    /\ att[1].pc = "done"
    /\ ~att[1].cancelled
    /\ abortControllers[att[1].key] = 0

\* C27: whenever the record of an identifier is Downloading, a startDownload
\* execution for that identifier is in flight (and so can still reach a
\* terminal outcome).
C27_DownloadingHasTransfer ==
    \A k \in Keys :
        store[k].state = "downloading"
            => \E a \in AttemptIds : InFlight(a) /\ att[a].key = k

\* C28: checkExistingFiles, run to its end on a store render() could read,
\* resets to NotPresent with progress 0 exactly the records that are Present
\* with no file on disk, leaves every other record as it was (Present with its
\* file, NotPresent, anything else stored), and writes the store only when it
\* reset at least one record.
C28_DiskCheckDowngradesExactly ==
    [][CheckFiles =>
         LET before == loadStates(startup.item)
             after == loadStates(startup'.item)
             absent == {k \in Keys : /\ IsRecord(before[k])
                                     /\ before[k].state = "downloaded"
                                     /\ ~file[k].exists}
         IN  /\ \A k \in Keys :
                   after[k] = IF k \in absent
                              THEN ModelState("not-downloaded", 0)
                              ELSE before[k]
             /\ startup'.item # startup.item => absent # {}
             /\ (startup'.wrote /\ ~startup.wrote) => absent # {}]_vars

\* C28 witness: the disk check has run on a store with one record Present
\* whose file is absent, now NotPresent with progress 0, and another record
\* Present whose file is on disk, still Present.
C28_Witness ==
    /\ startup.stage = "checked"
    /\ startup.run = 1
    /\ \E k, l \in Keys :
          /\ IsRecord(loadStates(startup.input)[k])
          /\ loadStates(startup.input)[k].state = "downloaded"
          /\ ~file[k].exists
          /\ startup.loaded[k] = ModelState("not-downloaded", 0)
          /\ IsRecord(loadStates(startup.input)[l])
          /\ loadStates(startup.input)[l].state = "downloaded"
          /\ file[l].exists
          /\ startup.loaded[l] = ModelState("downloaded", 100)

\* C29: for an attempt whose response declared no total size, a written chunk
\* leaves the attempt's progress at 0 and saves nothing, and the end of the
\* stream, when the attempt goes on to close the file, publishes progress 100.
C29_UnknownTotalProgress ==
    [][\A a \in AttemptIds :
          att[a].totalLength = 0 =>
              /\ WriteDone(a) =>
                    /\ store' = store
                    /\ att'[a].pc = "read"
                          => att'[a].states[att[a].key].progress = 0
              /\ (ReadEnd(a) /\ att'[a].pc = "close")
                    => /\ att[a].states[att[a].key].progress = 0
                       /\ store'[att[a].key].progress = 100]_vars

\* C29 witness: the only attempt of the session had no declared total size,
\* wrote chunks and reached the end of its stream; it is closing the file and
\* the published progress is 100.
C29_Witness ==
    /\ nAtt = 1
    /\ att[1].pc = "close"
    /\ att[1].totalLength = 0
    /\ att[1].receivedLength > 0
    /\ store[att[1].key] = ModelState("downloading", 100)

\* C30: in the variant of part_000, whenever a transfer for an identifier is in
\* flight the state the page shows for it (the stored record as loadStates
\* returns it) is Downloading, and a Download intent for that identifier is
\* ignored: it cannot start another attempt.
C30_InlineResetRedundant ==
    \A a \in AttemptIds :
        InFlight(a) =>
            /\ loadStatesInline(store)[att[a].key].state = "downloading"
            /\ ~ENABLED (startDownloadInline(att[a].key) /\ nAtt' # nAtt)

\* C31: at most one invoke of transcribe_command is in flight at any time.
C31_OneTranscriptionInFlight ==
    Cardinality({r \in RunIds : mainWin.runs[r].pc = "invoke"}) <= 1

\* C32: once refreshModelSelect has set the Start button, whenever the button
\* is enabled a file with an allowed extension is selected and the model
\* select lists at least one model.
C32_StartEnabledMeansReady ==
    (mainWin.listing > Len(MODEL_KEYS) /\ ~mainWin.startDisabled)
        => /\ mainWin.selectedFilePath # ""
           /\ isValidFileExtension(mainWin.selectedFilePath)
           /\ mainWin.options # {}

====
